---- MODULE Spec2Model ----
(***************************************************************************)
(* The FileChooser portal backend of xdg-desktop-portal-rs (src/main.rs)   *)
(* and the AppChooser stub (src/service.rs).                               *)
(*                                                                         *)
(* Every remote call is one record of `calls`.  A FileChooser handler runs *)
(* from its entry to the blocking rfd dialog call in one step (open_file,  *)
(* save_file, save_files) and from the dialog's return value to its own    *)
(* return in a second step (the *_match actions); between the two the call *)
(* sits in the native dialog, which only the user ends.                    *)
(*                                                                         *)
(* Text (paths, URIs) is a sequence of one-character strings; the scheme   *)
(* and the authority of a URI are one token each.  Option<T> is a set of   *)
(* at most one element: {} is None and {x} is Some(x).                     *)
(***************************************************************************)
EXTENDS Integers, Sequences, FiniteSets, TLC

VARIABLES calls

vars == << calls >>

\* ------------------------------------------------------------------ bounds
\* Number of characters of a selected path after its leading "/".
MaxPathLen == 1
\* Largest number of paths a multi-selection dialog returns.
MaxSel == 2
\* Number of calls in flight together in SpecConc.
NCalls == 2

\* ------------------------------------------------------------- input sets
\* Characters of a selected path after its leading separator: an unreserved
\* character, the two URI delimiters and one character no URI may hold
\* unescaped.
Alphabet == {"a", "?", "#", " "}

RECURSIVE TextsOfLen(_)
TextsOfLen(n) ==
    IF n = 0 THEN {<< >>}
    ELSE {<<ch>> \o t : ch \in Alphabet, t \in TextsOfLen(n - 1)}

\* The dialog toolkit hands back absolute paths.
Paths == UNION {{<<"/">> \o t : t \in TextsOfLen(n)} : n \in 0..MaxPathLen}

RECURSIVE SeqsOfLen(_, _)
SeqsOfLen(S, n) ==
    IF n = 0 THEN {<< >>}
    ELSE {<<x>> \o s : x \in S, s \in SeqsOfLen(S, n - 1)}

\* zvariant::Value: the variant tag and the printed payload.
Bool(b) == [t |-> "Bool", v |-> IF b THEN "true" ELSE "false"]
Str(s) == [t |-> "Str", v |-> s]

MultipleValues == {Bool(TRUE), Bool(FALSE), Str("true")}
DirectoryValues == {Bool(TRUE), Bool(FALSE), Str("true")}
CurrentNameValues == {Str("out.csv")}

KeyValues(k) ==
    CASE k = "multiple" -> MultipleValues
      [] k = "directory" -> DirectoryValues
      [] k = "current_name" -> CurrentNameValues

Keys == {"multiple", "directory", "current_name"}

\* StrMap option maps: any subset of the keys, each with one of its values.
OptionMaps ==
    UNION {{m \in [K -> UNION {KeyValues(k) : k \in K}] :
                \A k \in K : m[k] \in KeyValues(k)} : K \in SUBSET Keys}

Titles == {"Pick"}

\* What the user can do with a dialog of each mode: cancel, or confirm a
\* selection (one path in the single modes, one or more in the others).
Cancel == [kind |-> "cancel", paths |-> << >>]
Confirm(ps) == [kind |-> "confirm", paths |-> ps]

MultiModes == {"pick_files", "pick_folders"}
SingleModes == {"pick_file", "pick_folder", "save_file"}

Selections(mode, P, n) ==
    IF mode \in MultiModes
      THEN UNION {SeqsOfLen(P, k) : k \in 1..n}
      ELSE SeqsOfLen(P, 1)

UserActions(mode, P, n) == {Cancel} \cup {Confirm(ps) : ps \in Selections(mode, P, n)}

\* -------------------------------------------------------------- StrMap
StrMapNew == << >>

Insert(m, k, v) == [x \in (DOMAIN m) \cup {k} |-> IF x = k THEN v ELSE m[x]]

Get(m, k) == IF k \in DOMAIN m THEN {m[k]} ELSE {}

\* matches!(o, Some(zvariant::Value::Bool(true)))
IsSomeBoolTrue(o) == \E x \in o : x.t = "Bool" /\ x.v = "true"

\* if let Some(zvariant::Value::Str(s)) = o : the set of such s
SomeStr(o) == {x.v : x \in {y \in o : y.t = "Str"}}

\* ----------------------------------------------------------- http::Uri
\* Bytes PathAndQuery::from_shared lets through in the path part.
PathChars == {"/", "a"}
\* Bytes it lets through after the first "?".
QueryChars == {"/", "a", "?"}

InvalidUriChar == "invalid uri character"

\* The scan of PathAndQuery::from_shared from byte i on: the path part ends
\* at the first "?", the scan ends at the first "#", any other byte outside
\* the allowed set is an error.  query and fragment are 0 when not found.
RECURSIVE Scan(_, _, _)
Scan(src, i, query) ==
    IF i > Len(src) THEN [err |-> FALSE, query |-> query, fragment |-> 0]
    ELSE IF src[i] = "#" THEN [err |-> FALSE, query |-> query, fragment |-> i]
    ELSE IF query = 0
      THEN IF src[i] = "?" THEN Scan(src, i + 1, i)
           ELSE IF src[i] \in PathChars THEN Scan(src, i + 1, 0)
           ELSE [err |-> TRUE, query |-> 0, fragment |-> 0]
      ELSE IF src[i] \in QueryChars THEN Scan(src, i + 1, query)
           ELSE [err |-> TRUE, query |-> 0, fragment |-> 0]

\* PathAndQuery: the bytes kept (the fragment is cut off) and where the
\* query starts.
ParsePathAndQuery(src) ==
    LET s == Scan(src, 1, 0) IN
    IF s.err THEN [ok |-> FALSE, data |-> << >>, query |-> 0]
    ELSE [ok |-> TRUE,
          data |-> IF s.fragment = 0 THEN src ELSE SubSeq(src, 1, s.fragment - 1),
          query |-> s.query]

\* PathAndQuery::path(): the bytes before the query, "/" when there are none.
PathOf(pq) ==
    LET p == IF pq.query = 0 THEN pq.data ELSE SubSeq(pq.data, 1, pq.query - 1)
    IN IF p = << >> THEN <<"/">> ELSE p

\* Uri as Display prints it: scheme "://" authority path [ "?" query ].
UriToString(scheme, authority, pq) ==
    <<scheme, "://", authority>> \o PathOf(pq) \o
    (IF pq.query = 0 THEN << >>
     ELSE <<"?">> \o SubSeq(pq.data, pq.query + 1, Len(pq.data)))

\* PathBuf::to_string_lossy: the paths of Alphabet are valid UTF-8, which it
\* leaves as it is.
ToStringLossy(path) == path

\* One element of the map of pathbuf_to_file_uri: Ok(uri text) or
\* Err(http::Error).
BuildUri(path) ==
    LET pq == ParsePathAndQuery(ToStringLossy(path)) IN
    IF pq.ok THEN [ok |-> TRUE, val |-> UriToString("file", "localhost", pq)]
    ELSE [ok |-> FALSE, val |-> InvalidUriChar]

\* Mutant: filter_map(Result::ok) in place of collect(): the paths that do
\* not encode are left out.
pathbuf_to_file_uri_skips_errors(paths) ==
    LET built == [i \in 1..Len(paths) |-> BuildUri(paths[i])]
    IN [ok |-> TRUE,
        val |-> [i \in 1..Len(SelectSeq(built, LAMBDA b : b.ok)) |->
                    SelectSeq(built, LAMBDA b : b.ok)[i].val]]

\* collect() into Result<Vec<String>, http::Error>: the first Err, else all
\* the Ok values in order.
pathbuf_to_file_uri(paths) ==
    LET built == [i \in 1..Len(paths) |-> BuildUri(paths[i])]
        bad == {i \in 1..Len(paths) : ~built[i].ok}
    IN IF bad = {}
         THEN [ok |-> TRUE, val |-> [i \in 1..Len(paths) |-> built[i].val]]
         ELSE [ok |-> FALSE,
               val |-> built[CHOOSE i \in bad : \A j \in bad : i <= j].val]

\* ------------------------------------------------------------- replies
\* zbus::fdo::Result<(u32, StrMap)>
Ok(status, results) == [kind |-> "Ok", status |-> status, results |-> results]
Err(name, message) == [kind |-> "Err", name |-> name, message |-> message]

\* Mutant: unwrap_or_default() in place of map_err(..)?: an encoding error
\* is swallowed and the reply is a success without uris.
Selected_swallows_error(paths) ==
    LET uris == pathbuf_to_file_uri(paths) IN
    IF uris.ok THEN Ok(0, Insert(StrMapNew, "uris", uris.val))
    ELSE Ok(0, StrMapNew)

\* Some(paths) => { uris = pathbuf_to_file_uri(paths).map_err(Failed)?;
\*                  results.insert("uris", uris); Ok((0, results)) }
Selected(paths) ==
    LET uris == pathbuf_to_file_uri(paths) IN
    IF uris.ok THEN Ok(0, Insert(StrMapNew, "uris", uris.val))
    ELSE Err("Failed", uris.val)

\* Mutant: the cancelled reply carries an empty uris list.
Cancelled_with_empty_uris == Ok(1, Insert(StrMapNew, "uris", << >>))

\* None => Ok((1, StrMap::new()))
Cancelled == Ok(1, StrMapNew)

\* ------------------------------------------------------------ the state
NoCall ==
    [pc |-> "idle", op |-> "none", title |-> "", options |-> StrMapNew,
     dialog |-> {}, user |-> {}, reply |-> {}]

\* rfd::FileDialog::new().set_title(title), then the blocking call `mode`.
FileDialog(title, mode, file_name) ==
    [title |-> title, mode |-> mode, file_name |-> file_name]

\* Return values of the rfd calls for what the user did.
\* pick_file, pick_folder, save_file: Option<PathBuf>
PickOne(u) == IF u.kind = "cancel" THEN {} ELSE {u.paths[1]}
\* pick_files, pick_folders: Option<Vec<PathBuf>>
PickMany(u) == IF u.kind = "cancel" THEN {} ELSE {u.paths}

Show(c, op, title, options, dialog) ==
    calls' = [calls EXCEPT ![c] =
                [pc |-> "dialog", op |-> op, title |-> title, options |-> options,
                 dialog |-> {dialog}, user |-> {}, reply |-> {}]]

Return(c, u, reply) ==
    calls' = [calls EXCEPT ![c].pc = "returned", ![c].user = u, ![c].reply = {reply}]

\* ---------------------------------------------------------- FileChooser
\* Mutant: options.get("multiple").is_some(), any value counts as true.
open_file_multiple_is_some(options) == Get(options, "multiple") # {}

open_file_multiple(options) == IsSomeBoolTrue(Get(options, "multiple"))

open_file_directory(options) == IsSomeBoolTrue(Get(options, "directory"))

open_file_mode(multiple, directory) ==
    IF multiple
      THEN (IF directory THEN "pick_folders" ELSE "pick_files")
      ELSE (IF directory THEN "pick_folder" ELSE "pick_file")

\* open_file up to the blocking dialog call.
open_file(c, title, options) ==
    /\ calls[c].pc = "idle"
    /\ Show(c, "open_file", title, options,
            FileDialog(title,
                       open_file_mode(open_file_multiple(options),
                                      open_file_directory(options)),
                       {}))

open_file_reply(multiple, u) ==
    IF multiple
      THEN LET choices == PickMany(u) IN
           IF choices = {} THEN Cancelled
           ELSE Selected(CHOOSE paths \in choices : TRUE)
      ELSE LET choice == PickOne(u) IN
           IF choice = {} THEN Cancelled
           ELSE Selected(<<CHOOSE path \in choice : TRUE>>)

\* Mutant: one dialog shared by the handler: a call whose dialog ends while
\* another call's dialog is open is answered as cancelled.
open_file_match_shared_dialog(c, u) ==
    /\ calls[c].pc = "dialog"
    /\ calls[c].op = "open_file"
    /\ Return(c, {u},
              IF \E d \in DOMAIN calls \ {c} : calls[d].pc = "dialog"
                THEN Cancelled
                ELSE open_file_reply(open_file_multiple(calls[c].options), u))

\* open_file from the dialog's return value to its own return.
open_file_match(c, u) ==
    /\ calls[c].pc = "dialog"
    /\ calls[c].op = "open_file"
    /\ Return(c, {u}, open_file_reply(open_file_multiple(calls[c].options), u))

\* Mutant: the check reads the key directory.
save_file_rejects_directory_key(options) == IsSomeBoolTrue(Get(options, "directory"))

\* if let Some(Bool(true)) = options.get("multiple") { return Err(NotSupported) }
save_file_rejects(options) == IsSomeBoolTrue(Get(options, "multiple"))

\* save_file up to the blocking dialog call, or to its early return.
save_file(c, title, options) ==
    /\ calls[c].pc = "idle"
    /\ IF save_file_rejects(options)
         THEN calls' = [calls EXCEPT ![c] =
                 [pc |-> "returned", op |-> "save_file", title |-> title,
                  options |-> options, dialog |-> {}, user |-> {},
                  reply |-> {Err("NotSupported", "multiple save not supported")}]]
         ELSE Show(c, "save_file", title, options,
                   FileDialog(title, "save_file",
                              SomeStr(Get(options, "current_name"))))

save_reply(u) ==
    LET choice == PickOne(u) IN
    IF choice = {} THEN Cancelled
    ELSE Selected(<<CHOOSE path \in choice : TRUE>>)

\* save_file from the dialog's return value to its own return.
save_file_match(c, u) ==
    /\ calls[c].pc = "dialog"
    /\ calls[c].op = "save_file"
    /\ Return(c, {u}, save_reply(u))

\* Mutant: save_files answers without waiting for a dialog.
save_files_no_wait(c, title, options) ==
    /\ calls[c].pc = "idle"
    /\ calls' = [calls EXCEPT ![c] =
                   [pc |-> "returned", op |-> "save_files", title |-> title,
                    options |-> options, dialog |-> {}, user |-> {},
                    reply |-> {Cancelled}]]

\* save_files up to the blocking dialog call.
save_files(c, title, options) ==
    /\ calls[c].pc = "idle"
    /\ Show(c, "save_files", title, options, FileDialog(title, "pick_folder", {}))

\* Mutant: the chosen folder is listed twice.
save_files_reply_twice(u) ==
    LET choice == PickOne(u) IN
    IF choice = {} THEN Cancelled
    ELSE Selected(<<CHOOSE path \in choice : TRUE, CHOOSE path \in choice : TRUE>>)

save_files_reply(u) ==
    LET choice == PickOne(u) IN
    IF choice = {} THEN Cancelled
    ELSE Selected(<<CHOOSE path \in choice : TRUE>>)

\* save_files from the dialog's return value to its own return.
save_files_match(c, u) ==
    /\ calls[c].pc = "dialog"
    /\ calls[c].op = "save_files"
    /\ Return(c, {u}, save_files_reply(u))

\* ----------------------------------------------------------- AppChooser
\* Mutant: a stub reply in place of todo!().
choose_application_stub == {Ok(0, StrMapNew)}

\* What the body of an AppChooser method yields: todo!() panics, so the
\* method has no return value.
choose_application_body == {}

update_choices_body == {}

Run(c, op, body) ==
    calls' = [calls EXCEPT ![c] =
                [pc |-> IF body = {} THEN "panicked" ELSE "returned",
                 op |-> op, title |-> "", options |-> StrMapNew,
                 dialog |-> {}, user |-> {}, reply |-> body]]

choose_application(c) ==
    /\ calls[c].pc = "idle"
    /\ Run(c, "choose_application", choose_application_body)

update_choices(c) ==
    /\ calls[c].pc = "idle"
    /\ Run(c, "update_choices", update_choices_body)

\* -------------------------------------------------------- specifications
\* What the user may do with the dialog call c is blocked in; nothing when
\* no dialog of c is open.
Dismissals(c, P, n) ==
    IF calls[c].pc = "dialog"
      THEN UNION {UserActions(d.mode, P, n) : d \in calls[c].dialog}
      ELSE {}

\* One call at a time, over every option map and every selection.
Init == calls = [c \in {1} |-> NoCall]

Next ==
    \/ \E c \in DOMAIN calls, title \in Titles, options \in OptionMaps :
          open_file(c, title, options)
    \/ \E c \in DOMAIN calls, title \in Titles, options \in OptionMaps :
          save_file(c, title, options)
    \/ \E c \in DOMAIN calls, title \in Titles, options \in OptionMaps :
          save_files(c, title, options)
    \/ \E c \in DOMAIN calls : \E u \in Dismissals(c, Paths, MaxSel) :
          open_file_match(c, u)
    \/ \E c \in DOMAIN calls : \E u \in Dismissals(c, Paths, MaxSel) :
          save_file_match(c, u)
    \/ \E c \in DOMAIN calls : \E u \in Dismissals(c, Paths, MaxSel) :
          save_files_match(c, u)
    \/ \E c \in DOMAIN calls : choose_application(c)
    \/ \E c \in DOMAIN calls : update_choices(c)

Spec == Init /\ [][Next]_vars

\* NCalls calls in flight together, over a few option maps and selections.
ConcOptionMaps ==
    {m \in OptionMaps :
        /\ "current_name" \notin DOMAIN m
        /\ \A k \in DOMAIN m : m[k] = Bool(TRUE)
        /\ "directory" \in DOMAIN m => "multiple" \in DOMAIN m}

ConcUserActions(mode) ==
    {Cancel, Confirm(<< <<"/", "a">> >>), Confirm(<< <<"/", " ">> >>)}
    \cup (IF mode \in MultiModes
            THEN {Confirm(<< <<"/", "a">>, <<"/", "#">> >>)}
            ELSE {})

ConcDismissals(c) ==
    IF calls[c].pc = "dialog"
      THEN UNION {ConcUserActions(d.mode) : d \in calls[c].dialog}
      ELSE {}

InitConc == calls = [c \in 1..NCalls |-> NoCall]

NextConc ==
    \/ \E c \in DOMAIN calls, title \in Titles, options \in ConcOptionMaps :
          open_file(c, title, options)
    \/ \E c \in DOMAIN calls, title \in Titles, options \in ConcOptionMaps :
          save_file(c, title, options)
    \/ \E c \in DOMAIN calls, title \in Titles, options \in ConcOptionMaps :
          save_files(c, title, options)
    \/ \E c \in DOMAIN calls : \E u \in ConcDismissals(c) : open_file_match(c, u)
    \/ \E c \in DOMAIN calls : \E u \in ConcDismissals(c) : save_file_match(c, u)
    \/ \E c \in DOMAIN calls : \E u \in ConcDismissals(c) : save_files_match(c, u)
    \/ \E c \in DOMAIN calls : choose_application(c)
    \/ \E c \in DOMAIN calls : update_choices(c)

SpecConc == InitConc /\ [][NextConc]_vars

\* --------------------------------------------------------------- claims
FileOps == {"open_file", "save_file", "save_files"}
SaveOps == {"save_file", "save_files"}
AppOps == {"choose_application", "update_choices"}

Returned(c) == calls[c].pc = "returned"

\* The option map of call c holds key k with the boolean true.
HasTrue(c, k) ==
    /\ k \in DOMAIN calls[c].options
    /\ calls[c].options[k].t = "Bool"
    /\ calls[c].options[k].v = "true"

RepliedOk(c, status) ==
    /\ calls[c].reply # {}
    /\ \A r \in calls[c].reply : r.kind = "Ok" /\ r.status = status

RepliedErr(c, name) ==
    /\ calls[c].reply # {}
    /\ \A r \in calls[c].reply : r.kind = "Err" /\ r.name = name

Confirmed(c) == \E u \in calls[c].user : u.kind = "confirm"

\* The paths the dialog of call c returned.
PathsOf(c) == (CHOOSE u \in calls[c].user : TRUE).paths

ResultsOf(c) == (CHOOSE r \in calls[c].reply : TRUE).results

\* C1: a save_file call whose options hold multiple = true, whatever else
\* they hold, has returned the NotSupported error and no dialog was created
\* or shown for it.
C1_SaveMultipleNotSupported ==
    \A c \in DOMAIN calls :
        (calls[c].op = "save_file" /\ HasTrue(c, "multiple"))
        => /\ Returned(c)
           /\ RepliedErr(c, "NotSupported")
           /\ calls[c].dialog = {}
           /\ calls[c].user = {}

C1_Witness ==
    \E c \in DOMAIN calls :
        /\ calls[c].op = "save_file"
        /\ HasTrue(c, "multiple")
        /\ DOMAIN calls[c].options = Keys
        /\ Returned(c)

\* C2: an open_file call shows exactly one dialog, whose mode the pair
\* (multiple is the boolean true, directory is the boolean true) selects.
C2_ExpectedMode(m, d) ==
    CASE ~m /\ ~d -> "pick_file"
      [] ~m /\ d -> "pick_folder"
      [] m /\ ~d -> "pick_files"
      [] m /\ d -> "pick_folders"

C2_OpenFileMode ==
    \A c \in DOMAIN calls :
        calls[c].op = "open_file"
        => /\ Cardinality(calls[c].dialog) = 1
           /\ \A d \in calls[c].dialog :
                d.mode = C2_ExpectedMode(HasTrue(c, "multiple"), HasTrue(c, "directory"))

C2_Witness ==
    \E c \in DOMAIN calls :
        /\ calls[c].op = "open_file"
        /\ "multiple" \in DOMAIN calls[c].options
        /\ calls[c].options["multiple"].t = "Str"
        /\ HasTrue(c, "directory")
        /\ \E d \in calls[c].dialog : d.mode = "pick_folder"

\* C3: a FileChooser call whose dialog the user cancelled has returned
\* (1, empty map): no error, no uris key.
C3_CancelIsStatusOne ==
    \A c \in DOMAIN calls :
        (calls[c].op \in FileOps /\ Returned(c) /\ calls[c].user = {Cancel})
        => /\ RepliedOk(c, 1)
           /\ DOMAIN ResultsOf(c) = {}

C3_Witness ==
    \E c \in DOMAIN calls :
        /\ calls[c].op = "save_file"
        /\ Returned(c)
        /\ calls[c].user = {Cancel}

\* C4: a status-0 reply lists, in the dialog's order, one URI per path the
\* dialog returned, each being file://localhost followed by the path text.
C4_UrisArePrefixedPaths ==
    \A c \in DOMAIN calls :
        (calls[c].op \in FileOps /\ Returned(c) /\ RepliedOk(c, 0))
        => /\ "uris" \in DOMAIN ResultsOf(c)
           /\ Len(ResultsOf(c)["uris"]) = Len(PathsOf(c))
           /\ \A i \in 1..Len(PathsOf(c)) :
                ResultsOf(c)["uris"][i] = <<"file", "://", "localhost">> \o PathsOf(c)[i]

\* C5: when one of the selected paths, first or not, cannot be encoded, the
\* call has returned the Failed error and nothing else.
C5_OneBadPathFailsTheCall ==
    \A c \in DOMAIN calls :
        (/\ calls[c].op \in FileOps
         /\ Returned(c)
         /\ Confirmed(c)
         /\ \E i \in 1..Len(PathsOf(c)) : ~BuildUri(PathsOf(c)[i]).ok)
        => RepliedErr(c, "Failed")

C5_Witness ==
    \E c \in DOMAIN calls :
        /\ Returned(c)
        /\ Confirmed(c)
        /\ Len(PathsOf(c)) = 2
        /\ BuildUri(PathsOf(c)[1]).ok
        /\ ~BuildUri(PathsOf(c)[2]).ok

\* C6: a status-0 reply of save_file or save_files carries exactly one URI.
C6_SaveReturnsOneUri ==
    \A c \in DOMAIN calls :
        (calls[c].op \in SaveOps /\ Returned(c) /\ RepliedOk(c, 0))
        => /\ "uris" \in DOMAIN ResultsOf(c)
           /\ Len(ResultsOf(c)["uris"]) = 1

C6_Witness ==
    \E c \in DOMAIN calls :
        /\ calls[c].op = "save_files"
        /\ Returned(c)
        /\ RepliedOk(c, 0)

\* C7: a non-error reply has status 0 or 1; its result map is {uris} exactly
\* when the status is 0 and empty exactly when the status is 1.
C7_StatusAndResultKeys ==
    \A c \in DOMAIN calls :
        \A r \in calls[c].reply :
            (calls[c].op \in FileOps /\ r.kind = "Ok")
            => /\ r.status \in {0, 1}
               /\ (r.status = 0) <=> (DOMAIN r.results = {"uris"})
               /\ (r.status = 1) <=> (DOMAIN r.results = {})

C7_Witness ==
    \E c \in DOMAIN calls :
        /\ calls[c].op = "open_file"
        /\ RepliedOk(c, 0)
        /\ Len(ResultsOf(c)["uris"]) = 2

\* C8 as stated: a FileChooser call has returned only after the user
\* confirmed or cancelled its dialog.
C8_ReturnsOnlyAfterDismissal ==
    \A c \in DOMAIN calls :
        (calls[c].op \in FileOps /\ Returned(c))
        => (calls[c].dialog # {} /\ calls[c].user # {})

\* C8 amended: a FileChooser call has returned either after the user
\* confirmed or cancelled its dialog, or as save_file with multiple = true,
\* with the NotSupported error and without any dialog; a call whose dialog
\* was shown has not returned while the dialog is open.
C8_ReturnsAfterDismissalOrNotSupported ==
    \A c \in DOMAIN calls :
        /\ (calls[c].op \in FileOps /\ Returned(c))
           => \/ (calls[c].dialog # {} /\ calls[c].user # {})
              \/ /\ calls[c].op = "save_file"
                 /\ HasTrue(c, "multiple")
                 /\ RepliedErr(c, "NotSupported")
                 /\ calls[c].dialog = {}
        /\ (calls[c].dialog # {} /\ calls[c].user = {})
           => (calls[c].pc = "dialog" /\ calls[c].reply = {})

C8_Witness ==
    \E c, d \in DOMAIN calls :
        /\ Returned(c)
        /\ calls[c].user # {}
        /\ calls[d].op = "save_file"
        /\ Returned(d)
        /\ calls[d].dialog = {}

\* Two calls of the same operation with the same options and the same dialog
\* outcome have the same reply, however the calls were interleaved.
C9_SameInputsSameReply ==
    \A c, d \in DOMAIN calls :
        (/\ Returned(c) /\ Returned(d)
         /\ calls[c].op = calls[d].op
         /\ calls[c].options = calls[d].options
         /\ calls[c].user = calls[d].user)
        => \A r \in calls[c].reply, q \in calls[d].reply :
              /\ r.kind = q.kind
              /\ r.kind = "Ok" => (r.status = q.status /\ r.results = q.results)
              /\ r.kind = "Err" => (r.name = q.name /\ r.message = q.message)

\* A step of one call changes nothing of any other call.
C9_StepTouchesOneCall ==
    \A c, d \in DOMAIN calls :
        (c # d /\ calls'[c] # calls[c]) => calls'[d] = calls[d]

\* C9: under every interleaving of concurrent calls, a call's reply depends
\* only on its own operation, options and dialog outcome, and no step of one
\* call reads into or writes to another call.
C9_CallsAreIndependent == [] C9_SameInputsSameReply /\ [][C9_StepTouchesOneCall]_vars

C9_Witness ==
    \E c, d \in DOMAIN calls :
        /\ c # d
        /\ Returned(c) /\ Returned(d)
        /\ calls[c].op = "open_file" /\ calls[d].op = "open_file"
        /\ calls[c].options = calls[d].options
        /\ calls[c].user = calls[d].user
        /\ RepliedOk(c, 0)

\* C10: a call of choose_application or update_choices has aborted: it has
\* no reply, so no status code and no result data.
C10_AppChooserAborts ==
    \A c \in DOMAIN calls :
        calls[c].op \in AppOps
        => /\ calls[c].pc = "panicked"
           /\ calls[c].reply = {}

C10_Witness ==
    \E c, d \in DOMAIN calls :
        /\ calls[c].op = "choose_application"
        /\ calls[d].op = "update_choices"

====
